---------------------------- MODULE Spec2Model ----------------------------
(***************************************************************************)
(* A model of the game engine of src/main.py: the SQLite store (users,     *)
(* ai_countries, loans, battles, alliances, alliance_members), the loan    *)
(* handler of ChildBot, the new-game reset, the AI decision cycle of       *)
(* AISystem and the battle calculation of BattleSystem.                    *)
(*                                                                         *)
(* Time is counted in hours.  The store's CURRENT_TIMESTAMP is UTC, while  *)
(* datetime.now() is the local time of the process: tz is the offset of    *)
(* the process's time zone, fixed when the process starts.                 *)
(*                                                                         *)
(* Unit names are written in Latin letters: herfei = "حرفه ای",            *)
(* sarbaz = "سرباز", padafand = "پدافند".                                  *)
(***************************************************************************)
EXTENDS Integers, Sequences, FiniteSets, TLC

VARIABLES
    now,            \* the UTC wall clock, in hours
    tz,             \* local time minus UTC of the process, in hours
    bots,           \* table bots: set of [id, token, owner_id]
    users,          \* table users: <<bot_id, user_id>> -> row (UNIQUE(user_id, bot_id))
    ai,             \* table ai_countries: id -> row
    nextAiId,       \* AUTOINCREMENT counter of ai_countries
    loans,          \* table loans, in insertion order
    battles,        \* table battles, in insertion order
    alliances,      \* table alliances, in insertion order
    members,        \* table alliance_members, in insertion order
    sched,          \* run_ai_cycle of each world: its position, its fetched rows, its open transaction
    awaiting,       \* handler invocations suspended in "await query.edit_message_text"
    lastOp,         \* history: the last operation and what it decided
    battleIn,       \* arguments of calculate_battle_result
    battleOut,      \* its return value (or the exception it raised)
    conv            \* /addbot conversation of each user: its state and context.user_data['bot_token']

dbvars == <<bots, users, ai, nextAiId, loans, battles, alliances, members>>
vars == <<now, tz, bots, users, ai, nextAiId, loans, battles, alliances, members,
          sched, awaiting, lastOp, battleIn, battleOut, conv>>

---------------------------------------------------------------------------
(* Bounds of the model *)

MaxNow == 32
TickHours == 8
MaxLoans == 2
MaxAwaiting == 1
MaxAiRows == 10
MaxCount == 2
MaxCycles == 1
MaxOps == 2

UserIds == {1, 2}
BotIds == {1}
Tokens == {"1:a", "2:b"}
TZOffsets == {-8, 0, 8}

---------------------------------------------------------------------------
(* Program constants *)

LoanAmount == 5000
CooldownHours == 24
FactoryCost == 1000
SoldierCost == 500

NoOp == [op |-> "none", bot |-> 0, id |-> 0, choice |-> "", outcome |-> ""]

Op(o, b, i, c, r) == [op |-> o, bot |-> b, id |-> i, choice |-> c, outcome |-> r]

\* ChildBot.get_default_units
DefaultUnits ==
    [ground |-> [taze_nafas |-> 10, rpg_zan |-> 60, tak_tirandaz |-> 65,
                 sarbaz_herfei |-> 1185, topkhane_herfei |-> 53, sarbaz |-> 100,
                 topkhane |-> 2],
     air |-> [mushak_kutah_bord |-> 5, mushak_mian_bord |-> 3, jangande_sabok |-> 2,
              jangande_sangin |-> 1],
     defense |-> [padafand_mamuli |-> 5, padafand_herfei |-> 312,
                  padafand_ghodratmand |-> 100],
     navy |-> [nav_jangi |-> 2, zirdaryai |-> 3, keshti_jangi |-> 5, ghayegh_jangi |-> 10],
     cyber |-> [hacker_herfei |-> 2, tim_hackeri |-> 1],
     special |-> [bomb_hastei |-> 0, bomb_kuchulu |-> 5],
     factories |-> [karkhane_sade |-> 1, karkhane_mamuli |-> 2, karkhane_pishrafte |-> 1],
     infrastructure |-> [bimarestan |-> 1, nirugah |-> 2, madrese |-> 1]]

Resources(m, o, e, p) == [money |-> m, oil |-> o, electricity |-> e, population |-> p]

\* The resources start_new_game and assign_country give a player
PlayerResources == Resources(10000, 500, 1000, 1000)

\* The resources process_owner_id gives the owner
OwnerResources == Resources(20000, 1000, 1500, 2000)

\* The users row process_owner_id inserts for the owner
OwnerRow ==
    [country |-> "iran", is_owner |-> TRUE, resources |-> OwnerResources,
     units |-> DefaultUnits, technology_level |-> 1, morale |-> 100]

\* The users row assign_country inserts
PlayerRow(country) ==
    [country |-> country, is_owner |-> FALSE, resources |-> PlayerResources,
     units |-> DefaultUnits, technology_level |-> 1, morale |-> 100]

\* The list of MotherBot.create_default_ai_countries
DefaultAi ==
    << [name |-> "amrika", personality |-> "aggressive",
        resources |-> Resources(25000, 1500, 2000, 2500)],
       [name |-> "rusie", personality |-> "unpredictable",
        resources |-> Resources(22000, 1800, 1800, 2200)],
       [name |-> "chin", personality |-> "defensive",
        resources |-> Resources(23000, 1600, 1900, 3000)],
       [name |-> "alman", personality |-> "neutral",
        resources |-> Resources(20000, 1200, 1700, 1800)],
       [name |-> "zhapon", personality |-> "strategic",
        resources |-> Resources(21000, 1000, 1600, 1700)] >>

\* The default '{}' of the columns units
NoUnits == [u \in {} |-> 0]

\* One inserted ai_countries row: the columns not given take the table's defaults
AiRow(b, d) ==
    [bot_id |-> b, name |-> d.name, personality |-> d.personality,
     resources |-> d.resources, units |-> NoUnits, technology_level |-> 1,
     morale |-> 100]

\* MotherBot.create_default_ai_countries: the table after the five INSERTs,
\* the rows taking the ids first, first + 1, ...
CreateDefaultAiCountries(table, b, first) ==
    [i \in DOMAIN table \cup (first .. first + Len(DefaultAi) - 1) |->
        IF i \in first .. first + Len(DefaultAi) - 1
        THEN AiRow(b, DefaultAi[i - first + 1])
        ELSE table[i]]

\* DELETE FROM ai_countries without its WHERE
DeleteAiCountriesAnyWorld(table, b) ==
    [i \in {j \in DOMAIN table : FALSE} |-> table[i]]

\* DELETE FROM ai_countries WHERE bot_id = b
DeleteAiCountries(table, b) ==
    [i \in {j \in DOMAIN table : table[j].bot_id # b} |-> table[i]]

EmptyTable == [i \in {} |-> 0]

---------------------------------------------------------------------------
(* Time *)

\* SQLite's CURRENT_TIMESTAMP: the UTC time
CurrentTimestamp == now

\* datetime.now(): the naive local time of the process
DatetimeNow == now + tz

\* datetime.fromisoformat of a stored created_at: the naive datetime the
\* text spells, which is the UTC time of the insertion
FromIsoFormat(created_at) == created_at

---------------------------------------------------------------------------
(* ChildBot.process_loan_request *)

\* No run_ai_cycle is between its fetch and its commit: the cycle body never
\* suspends, so a handler only ever runs before or after it.
Quiescent == \A b \in DOMAIN sched : sched[b].pc # "running"

LoansOf(u, b) == {i \in 1 .. Len(loans) : loans[i].user_id = u /\ loans[i].bot_id = b}

\* SELECT created_at FROM loans WHERE user_id = ? AND bot_id = ?
\* ORDER BY created_at DESC LIMIT 1
LastLoanCreatedAt(u, b) ==
    LET S == LoansOf(u, b)
    IN  loans[CHOOSE i \in S : \A j \in S : loans[j].created_at <= loans[i].created_at].created_at

\* The rejection test: a last loan exists and now - last_date < 24 hours
CooldownActive(u, b) ==
    /\ LoansOf(u, b) # {}
    /\ (DatetimeNow - FromIsoFormat(LastLoanCreatedAt(u, b))) < CooldownHours

\* INSERT INTO loans (user_id, bot_id, amount, remaining): created_at defaults
\* to CURRENT_TIMESTAMP
InsertLoan(u, b) ==
    Append(loans, [user_id |-> u, bot_id |-> b, amount |-> LoanAmount,
                   remaining |-> LoanAmount, created_at |-> CurrentTimestamp])

\* SELECT resources FROM users; if the row exists, money += loan_amount and UPDATE
CreditLoan(u, b) ==
    IF <<b, u>> \in DOMAIN users
    THEN [users EXCEPT ![<<b, u>>].resources.money = @ + LoanAmount]
    ELSE users

\* The handler with its INSERT moved before the cooldown test
ProcessLoanRequestInsertFirst(b, u) ==
    /\ Quiescent
    /\ Cardinality(awaiting) < MaxAwaiting
    /\ Len(loans) < MaxLoans
    /\ loans' = InsertLoan(u, b)
    /\ IF CooldownActive(u, b)
       THEN /\ users' = users
            /\ awaiting' = awaiting \cup {[user |-> u, bot |-> b, reply |-> "rejected"]}
            /\ lastOp' = Op("loan", b, u, "", "rejected")
       ELSE /\ users' = CreditLoan(u, b)
            /\ awaiting' = awaiting \cup {[user |-> u, bot |-> b, reply |-> "granted"]}
            /\ lastOp' = Op("loan", b, u, "", "granted")
    /\ UNCHANGED <<now, tz, conv, bots, ai, nextAiId, battles, alliances, members, sched,
                   battleIn, battleOut>>

\* The handler up to its await: the rejection awaits inside the with block
\* (nothing was written), the grant awaits after the with block committed.
ProcessLoanRequest(b, u) ==
    /\ Quiescent
    /\ Cardinality(awaiting) < MaxAwaiting
    /\ IF CooldownActive(u, b)
       THEN /\ UNCHANGED <<loans, users>>
            /\ awaiting' = awaiting \cup {[user |-> u, bot |-> b, reply |-> "rejected"]}
            /\ lastOp' = Op("loan", b, u, "", "rejected")
       ELSE /\ Len(loans) < MaxLoans
            /\ loans' = InsertLoan(u, b)
            /\ users' = CreditLoan(u, b)
            /\ awaiting' = awaiting \cup {[user |-> u, bot |-> b, reply |-> "granted"]}
            /\ lastOp' = Op("loan", b, u, "", "granted")
    /\ UNCHANGED <<now, tz, conv, bots, ai, nextAiId, battles, alliances, members, sched,
                   battleIn, battleOut>>

\* A suspended handler's edit_message_text returns and the handler ends
ReplySent(t) ==
    /\ t \in awaiting
    /\ awaiting' = awaiting \ {t}
    /\ lastOp' = Op("reply", 0, 0, "", "")
    /\ UNCHANGED <<now, tz, conv, dbvars, sched, battleIn, battleOut>>

---------------------------------------------------------------------------
(* ChildBot.assign_country and ChildBot.start_new_game *)

\* country_map.get(country_code, default)
CountryMap(code) ==
    IF code \in {"iran", "iraq", "turkey", "saudi", "russia", "usa"} THEN code ELSE "iran"

\* Callback data "country_<code>" the model sends
InputCodes == {"iraq", "zz"}

\* assign_country with INSERT OR REPLACE: a second selection replaces the
\* row the user has
AssignCountryReplacing(b, u, code) ==
    /\ Quiescent
    /\ users' = [k \in DOMAIN users \cup {<<b, u>>} |->
                    IF k = <<b, u>> THEN PlayerRow(CountryMap(code)) ELSE users[k]]
    /\ lastOp' = Op("assign_country", b, u, "", "ok")
    /\ UNCHANGED <<now, tz, conv, bots, ai, nextAiId, loans, battles, alliances, members,
                   sched, awaiting, battleIn, battleOut>>

\* INSERT INTO users: a second row for (user_id, bot_id) violates the UNIQUE
\* constraint, the IntegrityError leaves the with block without a commit.
AssignCountry(b, u, code) ==
    /\ Quiescent
    /\ IF <<b, u>> \in DOMAIN users
       THEN /\ users' = users
            /\ lastOp' = Op("assign_country", b, u, "", "IntegrityError")
       ELSE /\ users' = [k \in DOMAIN users \cup {<<b, u>>} |->
                            IF k = <<b, u>> THEN PlayerRow(CountryMap(code)) ELSE users[k]]
            /\ lastOp' = Op("assign_country", b, u, "", "ok")
    /\ UNCHANGED <<now, tz, conv, bots, ai, nextAiId, loans, battles, alliances, members,
                   sched, awaiting, battleIn, battleOut>>

\* UPDATE users SET resources, units, technology_level = 1, morale = 100
\* WHERE user_id = ? AND bot_id = ?
ResetUser(u, b) ==
    IF <<b, u>> \in DOMAIN users
    THEN [users EXCEPT ![<<b, u>>] =
            [@ EXCEPT !.resources = PlayerResources, !.units = DefaultUnits,
                      !.technology_level = 1, !.morale = 100]]
    ELSE users

\* The reset also deleting the world's loan and battle records
StartNewGameClearingRecords(b, u) ==
    /\ Quiescent
    /\ nextAiId + Len(DefaultAi) - 1 <= MaxAiRows
    /\ users' = ResetUser(u, b)
    /\ ai' = CreateDefaultAiCountries(DeleteAiCountries(ai, b), b, nextAiId)
    /\ nextAiId' = nextAiId + Len(DefaultAi)
    /\ loans' = SelectSeq(loans, LAMBDA l : l.bot_id # b)
    /\ battles' = SelectSeq(battles, LAMBDA r : r.bot_id # b)
    /\ lastOp' = Op("start_new_game", b, u, "", "ok")
    /\ UNCHANGED <<now, tz, conv, bots, alliances, members, sched, awaiting, battleIn, battleOut>>

\* MotherBot("") builds a telegram Application for the empty token: whether
\* the library accepts an empty token is the library's choice, so the model
\* takes both outcomes.  When it raises, the with block is left without a
\* commit and the UPDATE and the DELETE are rolled back.
\* limit is the largest id the model lets ai_countries reach.
StartNewGameWithin(b, u, limit) ==
    /\ Quiescent
    /\ \E built \in BOOLEAN :
        IF built
        THEN /\ nextAiId + Len(DefaultAi) - 1 <= limit
             /\ users' = ResetUser(u, b)
             /\ ai' = CreateDefaultAiCountries(DeleteAiCountries(ai, b), b, nextAiId)
             /\ nextAiId' = nextAiId + Len(DefaultAi)
             /\ lastOp' = Op("start_new_game", b, u, "", "ok")
        ELSE /\ UNCHANGED <<users, ai, nextAiId>>
             /\ lastOp' = Op("start_new_game", b, u, "", "InvalidToken")
    /\ UNCHANGED <<now, tz, conv, bots, loans, battles, alliances, members,
                   sched, awaiting, battleIn, battleOut>>

\* start_new_game while the ids of ai_countries stay within MaxAiRows
StartNewGame(b, u) == StartNewGameWithin(b, u, MaxAiRows)

\* The wall clock advances
Tick ==
    /\ now + TickHours <= MaxNow
    /\ now' = now + TickHours
    /\ lastOp' = Op("tick", 0, 0, "", "")
    /\ UNCHANGED <<tz, conv, dbvars, sched, awaiting, battleIn, battleOut>>

---------------------------------------------------------------------------
(* MotherBot.process_owner_id: the registration of a world *)

\* A task of run_ai_cycle in its sleep; stop tells that the event loop was
\* asked to cancel the task; delay is the length of the sleep and slept the
\* part of it that has passed, both in units of ten minutes
IdleSched ==
    [pc |-> "sleeping", queue |-> <<>>, saved |-> <<>>, cycles |-> 0, ops |-> 0,
     stop |-> FALSE, delay |-> 0, slept |-> 0]

\* ChildBot.__init__ constructs the AISystem of the world and returns:
\* nothing creates a task for its run_ai_cycle
UnstartedSched == [IdleSched EXCEPT !.pc = "unstarted"]

\* The id an AUTOINCREMENT key gives the next row of bots (no row of bots is
\* ever deleted)
NextBotId == Cardinality(bots) + 1

\* process_owner_id committing the INSERT INTO bots before it builds the
\* ChildBot: the row of bots outlives the exception of the build
ProcessOwnerIdCommittingBot(token, owner) ==
    /\ Quiescent
    /\ IF \E w \in bots : w.token = token
       THEN /\ UNCHANGED <<bots, users, ai, nextAiId, sched>>
            /\ lastOp' = Op("process_owner_id", 0, owner, "", "IntegrityError")
       ELSE \E built \in BOOLEAN :
            IF built
            THEN /\ nextAiId + Len(DefaultAi) - 1 <= MaxAiRows
                 /\ bots' = bots \cup {[id |-> NextBotId, token |-> token, owner_id |-> owner]}
                 /\ users' = [k \in DOMAIN users \cup {<<NextBotId, owner>>} |->
                                 IF k = <<NextBotId, owner>> THEN OwnerRow ELSE users[k]]
                 /\ ai' = CreateDefaultAiCountries(ai, NextBotId, nextAiId)
                 /\ nextAiId' = nextAiId + Len(DefaultAi)
                 /\ sched' = [w \in DOMAIN sched \cup {NextBotId} |->
                                 IF w = NextBotId THEN UnstartedSched ELSE sched[w]]
                 /\ lastOp' = Op("process_owner_id", NextBotId, owner, "", "ok")
            ELSE /\ bots' = bots \cup {[id |-> NextBotId, token |-> token, owner_id |-> owner]}
                 /\ UNCHANGED <<users, ai, nextAiId, sched>>
                 /\ lastOp' = Op("process_owner_id", 0, owner, "", "InvalidToken")
    /\ UNCHANGED <<now, tz, loans, battles, alliances, members, awaiting,
                   battleIn, battleOut>>

\* The /addbot conversation of a user who has not begun one: state END
\* and no key 'bot_token' in context.user_data
NoConversation == [u \in UserIds |-> [state |-> "END", token |-> "none"]]

\* process_owner_id for a token process_bot_token accepted and an owner id
\* that parsed: what it does to the store.  The state it returns to the
\* conversation is decided from its outcome by the action that receives
\* the message, ProcessOwnerIdMessage.  A token some row of bots has violates UNIQUE: the
\* IntegrityError is caught and nothing was written.  ChildBot(token, bot_id)
\* builds a telegram Application: when the library rejects the token its
\* exception leaves the with block without a commit.  Otherwise the bot, the
\* owner's row and the five AI countries are committed together.
ProcessOwnerId(token, owner) ==
    /\ Quiescent
    /\ IF \E w \in bots : w.token = token
       THEN /\ UNCHANGED <<bots, users, ai, nextAiId, sched>>
            /\ lastOp' = Op("process_owner_id", 0, owner, "", "IntegrityError")
       ELSE \E built \in BOOLEAN :
            IF built
            THEN /\ nextAiId + Len(DefaultAi) - 1 <= MaxAiRows
                 /\ bots' = bots \cup {[id |-> NextBotId, token |-> token, owner_id |-> owner]}
                 /\ users' = [k \in DOMAIN users \cup {<<NextBotId, owner>>} |->
                                 IF k = <<NextBotId, owner>> THEN OwnerRow ELSE users[k]]
                 /\ ai' = CreateDefaultAiCountries(ai, NextBotId, nextAiId)
                 /\ nextAiId' = nextAiId + Len(DefaultAi)
                 /\ sched' = [w \in DOMAIN sched \cup {NextBotId} |->
                                 IF w = NextBotId THEN UnstartedSched ELSE sched[w]]
                 /\ lastOp' = Op("process_owner_id", NextBotId, owner, "", "ok")
            ELSE /\ UNCHANGED <<bots, users, ai, nextAiId, sched>>
                 /\ lastOp' = Op("process_owner_id", 0, owner, "", "InvalidToken")
    /\ UNCHANGED <<now, tz, loans, battles, alliances, members, awaiting,
                   battleIn, battleOut>>

---------------------------------------------------------------------------
(* The state of a world after MotherBot.process_owner_id registered it *)

NoBattle == [attacker_units |-> <<>>, defender_units |-> <<>>,
             attacker_tech |-> 1, defender_tech |-> 1]

NoResult == [result |-> "none", margin_num |-> 0, margin_den |-> 1,
             final_attack |-> 0, final_defense |-> 0, luck |-> 0]

\* The store after process_owner_id registered world 1 for owner 1: the bot,
\* the owner's row and the five default AI countries.
InitWorld ==
    /\ bots = {[id |-> 1, token |-> "1:a", owner_id |-> 1]}
    /\ users = [k \in {<<1, 1>>} |-> OwnerRow]
    /\ ai = CreateDefaultAiCountries(EmptyTable, 1, 1)
    /\ nextAiId = Len(DefaultAi) + 1
    /\ loans = <<>>
    /\ battles = <<>>
    /\ alliances = <<>>
    /\ members = <<>>

\* Loans: the clock starts at 0, the process runs in any of the time zones
InitLoan ==
    /\ InitWorld
    /\ now = 0
    /\ tz \in TZOffsets
    /\ sched = [b \in BotIds |-> IdleSched]
    /\ awaiting = {}
    /\ lastOp = NoOp
    /\ battleIn = NoBattle
    /\ battleOut = NoResult
    /\ conv = NoConversation

NextLoan ==
    \/ \E b \in BotIds, u \in UserIds : ProcessLoanRequest(b, u)
    \/ \E t \in awaiting : ReplySent(t)
    \/ \E b \in BotIds, u \in UserIds, code \in InputCodes : AssignCountry(b, u, code)
    \/ \E b \in BotIds, u \in UserIds : StartNewGame(b, u)
    \/ Tick

SpecLoan == InitLoan /\ [][NextLoan]_vars

---------------------------------------------------------------------------
(* Claims about loans, checked under SpecLoan *)

SameBorrower(i, j) ==
    loans[i].user_id = loans[j].user_id /\ loans[i].bot_id = loans[j].bot_id

\* C1: any two loan records of the same (user, world) have issue times at
\* least 24 hours apart, whatever the interleaving of requests and the
\* advance of time.
C1_LoansOneDayApart ==
    \A i, j \in 1 .. Len(loans) :
        (i < j /\ SameBorrower(i, j)) =>
            loans[j].created_at - loans[i].created_at >= CooldownHours

\* The same statement for a process whose local time is UTC
C1_LoansOneDayApartInUTC == (tz = 0) => C1_LoansOneDayApart

\* The user has no loan in the world, or the last one was issued at least
\* 24 hours before now, both read on the one UTC scale
Eligible(u, b) ==
    \/ LoansOf(u, b) = {}
    \/ now - LastLoanCreatedAt(u, b) >= CooldownHours

\* C2: a loan request is accepted iff the user has no prior loan in this
\* world or the most recent loan was issued at least 24 hours before now
\* (exactly 24 hours is eligible), the stored timestamp and "now" being
\* instants of the same scale.
C2_AcceptsIffEligible ==
    [][lastOp'.op = "loan" =>
        (lastOp'.outcome = "granted" <=> Eligible(lastOp'.id, lastOp'.bot))]_vars

\* C3: every loan issuance appends exactly one record with remaining = amount
\* and, in the same step, credits the borrower's money with that amount: no
\* loan record is created without the matching credit.
C3_LoanRecordAndCredit ==
    [][Len(loans') > Len(loans) =>
        LET l == loans'[Len(loans')]
            k == <<l.bot_id, l.user_id>>
        IN  /\ Len(loans') = Len(loans) + 1
            /\ l.remaining = l.amount
            /\ k \in DOMAIN users
            /\ k \in DOMAIN users'
            /\ users'[k].resources.money = users[k].resources.money + l.amount]_vars

\* C4: a loan request rejected because the cooldown is active leaves the
\* store unchanged: no loan record is appended, nobody's resources change.
C4_RejectionChangesNothing ==
    [][(lastOp'.op = "loan" /\ lastOp'.outcome = "rejected") => dbvars' = dbvars]_vars

\* A request of a user with a loan was just rejected
C4_Witness ==
    /\ lastOp.op = "loan"
    /\ lastOp.outcome = "rejected"
    /\ LoansOf(lastOp.id, lastOp.bot) # {}
    /\ <<lastOp.bot, lastOp.id>> \in DOMAIN users

---------------------------------------------------------------------------
(* BattleSystem.calculate_battle_result *)

(* Powers are integers.  The tech multiplier 1 + (attacker_tech -          *)
(* defender_tech) * 0.1 is kept in tenths and the luck in thousandths, so  *)
(* final_attack and final_defense are kept multiplied by Scale = 10 * 1000 *)
(* and a margin is the fraction margin_num / margin_den.                   *)

\* The markers a unit name contains as a substring
UnitMarkers(unit) ==
    CASE unit = "sarbaz" -> {"sarbaz"}
      [] unit = "sarbaz_herfei" -> {"sarbaz", "herfe"}
      [] unit = "topkhane_herfei" -> {"herfe"}
      [] unit = "padafand_herfei" -> {"padafand", "herfe"}
      [] unit = "padafand_mamuli" -> {"padafand"}
      [] OTHER -> {}

\* Names of the units the model commits to an attack and holds in defence
AttackerUnitNames == {"sarbaz", "sarbaz_herfei", "topkhane"}
DefenderUnitNames == {"padafand_herfei", "sarbaz_herfei", "topkhane"}

\* Technology levels of the two sides
TechLevels == {1, 2, 11, 12}

\* random.uniform(0.8, 1.2), in thousandths
LuckDraws == {800, 1000, 1200}

Scale == 10 * 1000

RECURSIVE SumOver(_, _)
\* The sum of f[x] over the keys S of the mapping f
SumOver(S, f) ==
    IF S = {} THEN 0
    ELSE LET x == CHOOSE y \in S : TRUE IN f[x] + SumOver(S \ {x}, f)

\* if "herfe" in unit: 3, elif "sarbaz" in unit: 2, else 1
AttackWeight(unit) ==
    IF "herfe" \in UnitMarkers(unit) THEN 3
    ELSE IF "sarbaz" \in UnitMarkers(unit) THEN 2
    ELSE 1

\* if "padafand" in unit: 4, elif "herfe" in unit: 3, else 1
DefenseWeight(unit) ==
    IF "padafand" \in UnitMarkers(unit) THEN 4
    ELSE IF "herfe" \in UnitMarkers(unit) THEN 3
    ELSE 1

AttackPower(units) ==
    SumOver(DOMAIN units, [u \in DOMAIN units |-> units[u] * AttackWeight(u)])

DefensePower(units) ==
    SumOver(DOMAIN units, [u \in DOMAIN units |-> units[u] * DefenseWeight(u)])

\* The multiplier with the two levels exchanged
TechMultiplierSwapped(attacker_tech, defender_tech) == 10 + (defender_tech - attacker_tech)

\* tech_multiplier = 1 + (attacker_tech - defender_tech) * 0.1, in tenths
TechMultiplier(attacker_tech, defender_tech) == 10 + (attacker_tech - defender_tech)

\* final_attack = attack_power * tech_multiplier * luck, times Scale
FinalAttack(in, luck) ==
    AttackPower(in.attacker_units) * TechMultiplier(in.attacker_tech, in.defender_tech) * luck

\* final_defense = defense_power, times Scale
FinalDefense(in) == DefensePower(in.defender_units) * Scale

\* The value calculate_battle_result returns for the luck drawn, or the
\* ZeroDivisionError of the defender's margin when final_defense is 0
CalculateBattleResult(in, luck) ==
    LET fa == FinalAttack(in, luck)
        fd == FinalDefense(in)
    IN  IF fa > fd
        THEN [result |-> "attacker_wins", margin_num |-> fa - fd, margin_den |-> fa,
              final_attack |-> fa, final_defense |-> fd, luck |-> luck]
        ELSE IF fd = 0
        THEN [result |-> "ZeroDivisionError", margin_num |-> 0, margin_den |-> 1,
              final_attack |-> fa, final_defense |-> fd, luck |-> luck]
        ELSE [result |-> "defender_wins", margin_num |-> fd - fa, margin_den |-> fd,
              final_attack |-> fa, final_defense |-> fd, luck |-> luck]

\* One call of calculate_battle_result on the arguments drawn
Calculate ==
    /\ battleOut.result = "none"
    /\ \E luck \in LuckDraws : battleOut' = CalculateBattleResult(battleIn, luck)
    /\ lastOp' = Op("battle", 0, 0, "", battleOut'.result)
    /\ UNCHANGED <<now, tz, conv, dbvars, sched, awaiting, battleIn>>

\* The arguments: any unit counts up to MaxCount and any technology levels
InitBattle ==
    /\ InitWorld
    /\ now = 0
    /\ tz = 0
    /\ sched = [b \in BotIds |-> IdleSched]
    /\ awaiting = {}
    /\ lastOp = NoOp
    /\ battleIn \in [attacker_units : [AttackerUnitNames -> 0 .. MaxCount],
                     defender_units : [DefenderUnitNames -> 0 .. MaxCount],
                     attacker_tech : TechLevels,
                     defender_tech : TechLevels]
    /\ battleOut = NoResult
    /\ conv = NoConversation

NextBattle == Calculate

SpecBattle == InitBattle /\ [][NextBattle]_vars

---------------------------------------------------------------------------
(* Claims about the battle calculation, checked under SpecBattle *)

Computed == battleOut.result # "none"

\* C6: the result is 'attacker_wins' iff final_attack > final_defense and
\* 'defender_wins' in every other case, every tie included (also 0 against 0).
C6_AttackerWinsIffStronger ==
    Computed =>
        IF battleOut.final_attack > battleOut.final_defense
        THEN battleOut.result = "attacker_wins"
        ELSE battleOut.result = "defender_wins"

\* C7: the fraction returned with every battle outcome lies in [0, 0.3], and
\* it is exactly 0 whenever the result is 'defender_wins'.
C7_LootFractionCapped ==
    battleOut.result \in {"attacker_wins", "defender_wins"} =>
        /\ battleOut.margin_num >= 0
        /\ 10 * battleOut.margin_num <= 3 * battleOut.margin_den
        /\ (battleOut.result = "defender_wins" => battleOut.margin_num = 0)

PositiveAttackNoDefense ==
    /\ Computed
    /\ AttackPower(battleIn.attacker_units) > 0
    /\ DefensePower(battleIn.defender_units) = 0

\* C8 as claimed: with positive raw attack power against defense power 0 the
\* result is 'attacker_wins' for every pair of tech levels and every luck.
C8_AttackerAlwaysWins ==
    PositiveAttackNoDefense => battleOut.result = "attacker_wins"

\* C8 as amended: with positive raw attack power against defense power 0 the
\* result is 'attacker_wins' for every luck and every pair of tech levels
\* whose multiplier is positive (attacker_tech - defender_tech > -10).
C8_AttackerWinsWhenMultiplierPositive ==
    (PositiveAttackNoDefense /\ battleIn.attacker_tech - battleIn.defender_tech > -10)
        => battleOut.result = "attacker_wins"

\* An undefended defender of much higher technology was attacked and lost
C8_Witness ==
    /\ PositiveAttackNoDefense
    /\ battleIn.attacker_tech - battleIn.defender_tech = -9
    /\ battleOut.luck = 800
    /\ battleOut.result = "attacker_wins"

\* C9: the final attack power compared against the defense is never
\* negative, whatever the difference of the tech levels.
C9_FinalAttackNotNegative == Computed => battleOut.final_attack >= 0

---------------------------------------------------------------------------
(* AISystem: run_ai_cycle, make_decision and the four actions *)

\* The table with the attack weights of 'aggressive' and 'defensive' exchanged
PersonalitiesAttackExchanged ==
    [aggressive |-> [attack |-> 2, build |-> 3, ally |-> 1, research |-> 1, nothing |-> 1],
     defensive |-> [attack |-> 7, build |-> 6, ally |-> 4, research |-> 1, nothing |-> 1],
     unpredictable |-> [attack |-> 5, build |-> 4, ally |-> 3, research |-> 1, nothing |-> 1],
     neutral |-> [attack |-> 3, build |-> 5, ally |-> 2, research |-> 1, nothing |-> 1],
     strategic |-> [attack |-> 4, build |-> 6, ally |-> 5, research |-> 1, nothing |-> 1]]

\* AISystem.personalities, and the two fixed weights of make_decision, in tenths
Personalities ==
    [aggressive |-> [attack |-> 7, build |-> 3, ally |-> 1, research |-> 1, nothing |-> 1],
     defensive |-> [attack |-> 2, build |-> 6, ally |-> 4, research |-> 1, nothing |-> 1],
     unpredictable |-> [attack |-> 5, build |-> 4, ally |-> 3, research |-> 1, nothing |-> 1],
     neutral |-> [attack |-> 3, build |-> 5, ally |-> 2, research |-> 1, nothing |-> 1],
     strategic |-> [attack |-> 4, build |-> 6, ally |-> 5, research |-> 1, nothing |-> 1]]

\* The lookup whose default is the first profile of the dict
PersonalityConfigFirst(personality) ==
    IF personality \in DOMAIN Personalities
    THEN Personalities[personality]
    ELSE Personalities["aggressive"]

\* self.personalities.get(personality, self.personalities["neutral"])
PersonalityConfig(personality) ==
    IF personality \in DOMAIN Personalities
    THEN Personalities[personality]
    ELSE Personalities["neutral"]

\* The decisions random.choices can return: those of positive weight
Decisions(personality) ==
    {d \in {"attack", "build", "ally", "research", "nothing"} :
        PersonalityConfig(personality)[d] > 0}

BuildOptions == {"factory", "soldier", "defense", "research"}

RECURSIVE Ascending(_)
\* The ids of S in ascending order: the order the SELECT returns the rows in
Ascending(S) ==
    IF S = {} THEN <<>>
    ELSE LET x == CHOOSE y \in S : \A z \in S : y <= z IN <<x>> \o Ascending(S \ {x})

\* SELECT id, name, personality, resources FROM ai_countries WHERE bot_id = ?
FetchAiCountries(b) ==
    LET ids == Ascending({i \in DOMAIN ai : ai[i].bot_id = b})
    IN  [k \in 1 .. Len(ids) |->
            [id |-> ids[k], name |-> ai[ids[k]].name,
             personality |-> ai[ids[k]].personality, resources |-> ai[ids[k]].resources]]

\* What the cycle's connection has written and not yet committed can still
\* be rolled back to: the tables as they were when the cycle opened it
Snapshot == [ai |-> ai, battles |-> battles, alliances |-> alliances, members |-> members]

\* run_ai_cycle wakes from asyncio.sleep, opens a connection and fetches the
\* world's AI countries
WakeUpWithin(b, limit) ==
    /\ Quiescent
    /\ sched[b].pc = "sleeping"
    /\ sched[b].cycles < limit
    /\ sched' = [sched EXCEPT ![b] = [@ EXCEPT !.pc = "running",
                                               !.queue = FetchAiCountries(b),
                                               !.saved = Snapshot,
                                               !.cycles = @ + 1]]
    /\ lastOp' = Op("wake_up", b, 0, "", "")
    /\ UNCHANGED <<now, tz, conv, dbvars, awaiting, battleIn, battleOut>>

\* The wake-up while the world has begun fewer than MaxCycles cycles
WakeUp(b) == WakeUpWithin(b, MaxCycles)

\* ai_build without the tests of the money
AiBuildResourcesUnchecked(resources, choice) ==
    IF choice = "factory"
    THEN [resources EXCEPT !.money = @ - FactoryCost]
    ELSE IF choice = "soldier"
    THEN [resources EXCEPT !.money = @ - SoldierCost]
    ELSE resources

\* ai_build: the resources written back for the option chosen
AiBuildResources(resources, choice) ==
    IF choice = "factory" /\ resources.money > FactoryCost
    THEN [resources EXCEPT !.money = @ - FactoryCost]
    ELSE IF choice = "soldier" /\ resources.money > SoldierCost
    THEN [resources EXCEPT !.money = @ - SoldierCost]
    ELSE resources

\* UPDATE ai_countries SET resources = ? WHERE id = ?
AiBuild(row, choice) ==
    /\ ai' = IF row.id \in DOMAIN ai
             THEN [ai EXCEPT ![row.id].resources = AiBuildResources(row.resources, choice)]
             ELSE ai
    /\ UNCHANGED <<battles, alliances, members>>

\* INSERT INTO battles: the attack is recorded with result 'pending'
BattleRecord(b, ai_id, defender_id, defender_type, defender_country) ==
    [bot_id |-> b, attacker_id |-> ai_id, defender_id |-> defender_id,
     attacker_type |-> "ai", defender_type |-> defender_type,
     attacker_country |-> ai_id, defender_country |-> defender_country,
     result |-> "pending"]

\* The first branch without "WHERE bot_id = ?"
AiAttackPlayerAnyWorld(b, ai_id, target) ==
    /\ target \in DOMAIN users
    /\ battles' = Append(battles,
                         BattleRecord(b, ai_id, target[2], "player", users[target].country))
    /\ UNCHANGED <<ai, alliances, members>>

\* ai_attack, the branch random.random() < 0.7: a random player of the world
AiAttackPlayer(b, ai_id, target) ==
    /\ target \in {k \in DOMAIN users : k[1] = b}
    /\ battles' = Append(battles,
                         BattleRecord(b, ai_id, target[2], "player", users[target].country))
    /\ UNCHANGED <<ai, alliances, members>>

\* The other branch without "AND id != ?"
AiAttackAiOrItself(b, ai_id, target) ==
    /\ target \in {i \in DOMAIN ai : ai[i].bot_id = b}
    /\ battles' = Append(battles, BattleRecord(b, ai_id, target, "ai", ai[target].name))
    /\ UNCHANGED <<ai, alliances, members>>

\* ai_attack, the other branch: a random other AI country of the world
AiAttackAi(b, ai_id, target) ==
    /\ target \in {i \in DOMAIN ai : ai[i].bot_id = b /\ i # ai_id}
    /\ battles' = Append(battles, BattleRecord(b, ai_id, target, "ai", ai[target].name))
    /\ UNCHANGED <<ai, alliances, members>>

\* ai_attack when the branch taken finds no target: nothing is written
AiAttackNobody(b, ai_id) ==
    /\ \/ {k \in DOMAIN users : k[1] = b} = {}
       \/ {i \in DOMAIN ai : ai[i].bot_id = b /\ i # ai_id} = {}
    /\ UNCHANGED <<ai, battles, alliances, members>>

\* Whether the world has an alliance: the SELECT of ai_ally returns a row
HasAlliance(b) == \E k \in 1 .. Len(alliances) : alliances[k].bot_id = b

\* ai_ally founding an alliance without its SELECT of the ones the world has
AiAllyFoundAgain(b, ai_id) ==
    /\ alliances' = Append(alliances, [id |-> Len(alliances) + 1, bot_id |-> b, name |-> ai_id])
    /\ members' = Append(members, [alliance_id |-> Len(alliances) + 1, ai_id |-> ai_id,
                                   member_type |-> "ai"])
    /\ UNCHANGED <<ai, battles>>

\* ai_ally when the world has no alliance: a new alliance and its first member
AiAllyFound(b, ai_id) ==
    /\ ~HasAlliance(b)
    /\ alliances' = Append(alliances, [id |-> Len(alliances) + 1, bot_id |-> b, name |-> ai_id])
    /\ members' = Append(members, [alliance_id |-> Len(alliances) + 1, ai_id |-> ai_id,
                                   member_type |-> "ai"])
    /\ UNCHANGED <<ai, battles>>

\* Research that is only done by a country that has money
AiResearchIfFunded(ai_id) ==
    /\ ai' = IF ai_id \in DOMAIN ai /\ ai[ai_id].resources.money > 0
             THEN [ai EXCEPT ![ai_id].technology_level = @ + 1]
             ELSE ai
    /\ UNCHANGED <<battles, alliances, members>>

\* Research that writes the level back one lower
AiResearchLosing(ai_id) ==
    /\ ai' = IF ai_id \in DOMAIN ai
             THEN [ai EXCEPT ![ai_id].technology_level = @ - 1]
             ELSE ai
    /\ UNCHANGED <<battles, alliances, members>>

\* ai_research: technology_level + 1 when the row exists
AiResearch(ai_id) ==
    /\ ai' = IF ai_id \in DOMAIN ai
             THEN [ai EXCEPT ![ai_id].technology_level = @ + 1]
             ELSE ai
    /\ UNCHANGED <<battles, alliances, members>>

\* The cycle goes on to the next fetched row
Proceed(b, op) ==
    /\ sched' = [sched EXCEPT ![b] = [@ EXCEPT !.queue = Tail(@),
                                               !.ops = IF op.op = "nothing" THEN @ ELSE @ + 1]]
    /\ lastOp' = op

\* An exception leaves make_decision and run_ai_cycle: the with block closes
\* the connection without a commit, which rolls back what the cycle wrote,
\* and the task of run_ai_cycle ends.
Escape(b, op) ==
    /\ ai' = sched[b].saved.ai
    /\ battles' = sched[b].saved.battles
    /\ alliances' = sched[b].saved.alliances
    /\ members' = sched[b].saved.members
    /\ sched' = [sched EXCEPT ![b] = [@ EXCEPT !.pc = "dead", !.queue = <<>>, !.saved = <<>>]]
    /\ lastOp' = op

\* A chain that ends in "else: research"
AiNothingResearches(ai_id) == AiResearch(ai_id)

\* The if/elif chain of make_decision has no branch for "nothing": no
\* statement is executed
AiNothing(ai_id) == UNCHANGED <<ai, battles, alliances, members>>

\* make_decision for the next fetched AI country
MakeDecision(b) ==
    /\ sched[b].pc = "running"
    /\ sched[b].queue # <<>>
    /\ LET row == Head(sched[b].queue)
       IN  \E decision \in Decisions(row.personality) :
            /\ decision # "nothing" => sched[b].ops < MaxOps
            /\ \/ /\ decision = "attack"
                  /\ \/ \E t \in DOMAIN users : AiAttackPlayer(b, row.id, t)
                     \/ \E t \in DOMAIN ai : AiAttackAi(b, row.id, t)
                     \/ AiAttackNobody(b, row.id)
                  /\ Proceed(b, Op("attack", b, row.id, "",
                                   IF battles' = battles THEN "no target" ELSE "ok"))
               \/ /\ decision = "build"
                  /\ \E choice \in BuildOptions :
                        /\ AiBuild(row, choice)
                        /\ Proceed(b, Op("build", b, row.id, choice, "ok"))
               \/ /\ decision = "ally"
                  /\ AiAllyFound(b, row.id)
                  /\ Proceed(b, Op("ally", b, row.id, "", "ok"))
               \/ /\ decision = "ally"
                  /\ HasAlliance(b)
                  /\ Escape(b, Op("ally", b, row.id, "", "UnboundLocalError"))
               \/ /\ decision = "research"
                  /\ AiResearch(row.id)
                  /\ Proceed(b, Op("research", b, row.id, "", "ok"))
               \/ /\ decision = "nothing"
                  /\ AiNothing(row.id)
                  /\ Proceed(b, Op("nothing", b, row.id, "", "ok"))
    /\ UNCHANGED <<now, tz, conv, bots, users, nextAiId, loans, awaiting, battleIn, battleOut>>

\* Every fetched row was decided: the with block commits and the loop goes
\* to its sleep of the delay drawn, where a cancellation asked for during
\* the cycle is raised
EndCycleThenSleep(b, delay) ==
    /\ sched[b].pc = "running"
    /\ sched[b].queue = <<>>
    /\ sched' = [sched EXCEPT ![b] = [@ EXCEPT !.pc = IF sched[b].stop THEN "cancelled"
                                                      ELSE "sleeping",
                                               !.saved = <<>>,
                                               !.delay = delay,
                                               !.slept = 0]]
    /\ lastOp' = Op("end_cycle", b, 0, "", "")
    /\ UNCHANGED <<now, tz, conv, dbvars, awaiting, battleIn, battleOut>>

\* The end of a cycle where the length of the sleep is not followed
EndCycle(b) == EndCycleThenSleep(b, 0)

\* Money the first AI country can have come down to by building: each build
\* takes 1000 or 500 from the 25000 it starts with
AiMoneyStart == {25000, 1500, 1000, 500}

\* A registered world whose run_ai_cycle was started and is in its first
\* sleep; the first AI country has the money of AiMoneyStart
InitAI ==
    /\ bots = {[id |-> 1, token |-> "1:a", owner_id |-> 1]}
    /\ users = [k \in {<<1, 1>>} |-> OwnerRow]
    /\ \E m \in AiMoneyStart :
         ai = [CreateDefaultAiCountries(EmptyTable, 1, 1) EXCEPT ![1].resources.money = m]
    /\ nextAiId = Len(DefaultAi) + 1
    /\ loans = <<>>
    /\ battles = <<>>
    /\ alliances = <<>>
    /\ members = <<>>
    /\ now = 0
    /\ tz = 0
    /\ sched = [b \in BotIds |-> IdleSched]
    /\ awaiting = {}
    /\ lastOp = NoOp
    /\ battleIn = NoBattle
    /\ battleOut = NoResult
    /\ conv = NoConversation

NextAI ==
    \/ \E b \in BotIds : WakeUp(b)
    \/ \E b \in BotIds : MakeDecision(b)
    \/ \E b \in BotIds : EndCycle(b)
    \/ \E b \in BotIds, u \in UserIds : ProcessLoanRequest(b, u)
    \/ \E t \in awaiting : ReplySent(t)
    \/ \E b \in BotIds, u \in UserIds : StartNewGame(b, u)

SpecAI == InitAI /\ [][NextAI]_vars

---------------------------------------------------------------------------
(* Claims about resources and the AI cycle, checked under SpecAI *)

NonNegative(r) == r.money >= 0 /\ r.oil >= 0 /\ r.electricity >= 0 /\ r.population >= 0

AllResourcesNonNegative ==
    /\ \A k \in DOMAIN users : NonNegative(users[k].resources)
    /\ \A i \in DOMAIN ai : NonNegative(ai[i].resources)

BuildCost(choice) ==
    IF choice = "factory" THEN FactoryCost
    ELSE IF choice = "soldier" THEN SoldierCost
    ELSE 0

\* The step is an AI build of an option the country cannot pay
UnaffordableBuild ==
    /\ lastOp'.op = "build"
    /\ lastOp'.id \in DOMAIN ai
    /\ ai[lastOp'.id].resources.money < BuildCost(lastOp'.choice)

\* C5: every resource field of every player and AI country is non-negative
\* in every reachable state, and an AI build whose cost cannot be paid
\* leaves that country's resources unchanged.
C5_ResourcesNeverNegative ==
    /\ []AllResourcesNonNegative
    /\ [][UnaffordableBuild =>
            (lastOp'.id \in DOMAIN ai' /\
             ai'[lastOp'.id].resources = ai[lastOp'.id].resources)]_vars

\* An AI country that had 500 when its cycle began was told to build a
\* factory, and still has 500; the owner has taken a loan
C5_Witness ==
    /\ lastOp.op = "build"
    /\ lastOp.choice = "factory"
    /\ lastOp.id \in DOMAIN ai
    /\ sched[lastOp.bot].pc = "running"
    /\ sched[lastOp.bot].saved.ai[lastOp.id].resources.money = 500
    /\ ai[lastOp.id].resources.money = 500
    /\ loans # <<>>

\* C13: every battle record of the store carries the outcome of its combat
\* resolution: its result is 'attacker_wins' or 'defender_wins', no record
\* has any other result value.
C13_BattleRecordsResolved ==
    \A k \in 1 .. Len(battles) : battles[k].result \in {"attacker_wins", "defender_wins"}

\* The ids of the alliances of world b
AlliancesOf(b) == {alliances[k].id : k \in {j \in 1 .. Len(alliances) : alliances[j].bot_id = b}}

\* C15: an ally action of AI country X completes without error; when the
\* world has an alliance X becomes a member of one of the world's alliances
\* and no alliance is created, when it has none exactly one alliance is
\* created and X is its only member.
C15_AllyJoinsOrFounds ==
    [][lastOp'.op = "ally" =>
        LET b == lastOp'.bot
            x == lastOp'.id
        IN  /\ lastOp'.outcome = "ok"
            /\ Len(members') = Len(members) + 1
            /\ SubSeq(members', 1, Len(members)) = members
            /\ members'[Len(members')].ai_id = x
            /\ IF HasAlliance(b)
               THEN /\ alliances' = alliances
                    /\ members'[Len(members')].alliance_id \in AlliancesOf(b)
               ELSE /\ Len(alliances') = Len(alliances) + 1
                    /\ SubSeq(alliances', 1, Len(alliances)) = alliances
                    /\ alliances'[Len(alliances')].bot_id = b
                    /\ members'[Len(members')].alliance_id = alliances'[Len(alliances')].id]_vars

\* Some inventory counter or the tech level of the row new is above the
\* one of the row old
CounterIncreased(old, new) ==
    \/ new.technology_level > old.technology_level
    \/ \E u \in DOMAIN new.units :
          IF u \in DOMAIN old.units THEN new.units[u] > old.units[u] ELSE new.units[u] > 0

\* C16: a build action of an AI country either debits the fixed cost of the
\* option chosen and in the same step increases an inventory or tech
\* counter of that country, or changes nothing: money is never debited
\* without the counter increase.
C16_BuildDebitsWithCounter ==
    [][(lastOp'.op = "build" /\ lastOp'.id \in DOMAIN ai) =>
        LET x == lastOp'.id
        IN  /\ x \in DOMAIN ai'
            /\ \/ ai'[x] = ai[x]
               \/ /\ ai'[x].resources =
                        [ai[x].resources EXCEPT !.money = @ - BuildCost(lastOp'.choice)]
                  /\ CounterIncreased(ai[x], ai'[x])]_vars

\* C10: a failure raised while one AI country's decision is processed never
\* escapes to the scheduler loop: the cycle goes on with the remaining AI
\* countries and run_ai_cycle stays alive for the later ticks.
C10_FailureNeverEscapes ==
    \A b \in BotIds :
        /\ sched[b].pc # "dead"
        /\ lastOp.outcome = "UnboundLocalError" => sched[b].pc = "running"

---------------------------------------------------------------------------
(* Two worlds: world 1 as in InitAI, a second world registered on the way *)

\* World 1 is registered and its run_ai_cycle is taken as started and in its
\* first sleep; no other world exists yet
InitWorlds ==
    /\ InitWorld
    /\ now = 0
    /\ tz = 0
    /\ sched = [b \in BotIds |-> IdleSched]
    /\ awaiting = {}
    /\ lastOp = NoOp
    /\ battleIn = NoBattle
    /\ battleOut = NoResult
    /\ conv = NoConversation

NextWorlds ==
    \/ \E token \in Tokens, owner \in UserIds :
          ProcessOwnerId(token, owner) /\ UNCHANGED conv
    \/ \E b \in DOMAIN sched : WakeUp(b)
    \/ \E b \in DOMAIN sched : MakeDecision(b)
    \/ \E b \in DOMAIN sched : EndCycle(b)

SpecWorlds == InitWorlds /\ [][NextWorlds]_vars

---------------------------------------------------------------------------
(* Claims about the worlds and their schedulers, checked under SpecWorlds *)

\* C11: for every world that has been created the scheduler loop is running
\* (asleep between two cycles or inside one), which every AI country of the
\* world needs to receive its decision ticks again and again.
C11_SchedulerRunning ==
    \A w \in bots : sched[w.id].pc \in {"sleeping", "running"}

\* The ids of the rows of a fetched list
QueueIds(q) == {q[k].id : k \in 1 .. Len(q)}

\* The five actions of make_decision, as lastOp names them
FiveActions == {"attack", "build", "ally", "research", "nothing"}

\* The step starts a cycle of world b: the fetched list holds every AI
\* country of b once and no other
CycleFetchesItsWorld(b) ==
    (sched[b].pc = "sleeping" /\ sched'[b].pc = "running") =>
        /\ QueueIds(sched'[b].queue) = {i \in DOMAIN ai : ai[i].bot_id = b}
        /\ Len(sched'[b].queue) = Cardinality(QueueIds(sched'[b].queue))

\* The step is an invocation of the decision engine in world b: it takes
\* the next fetched country, and performs one of the five actions on it
InvocationPerformsOne(b) ==
    (sched[b].pc = "running" /\ sched[b].queue # <<>> /\ sched' # sched) =>
        /\ lastOp'.op \in FiveActions
        /\ lastOp'.bot = b
        /\ lastOp'.id = Head(sched[b].queue).id
        /\ lastOp'.outcome \in {"ok", "no target"}
        /\ sched'[b].queue = Tail(sched[b].queue)

\* The step ends a cycle of world b: no fetched country is left undecided
CycleEndsComplete(b) ==
    (sched[b].pc = "running" /\ sched'[b].pc # "running") => sched[b].queue = <<>>

\* C12: in every cycle of a world the decision engine is invoked exactly
\* once for each AI country registered in that world when the cycle starts
\* and for no country of another world, and each invocation performs
\* exactly one of attack, build, ally, research, idle.
C12_OncePerCountryPerCycle ==
    [][\A b \in DOMAIN sched :
          /\ CycleFetchesItsWorld(b)
          /\ InvocationPerformsOne(b)
          /\ CycleEndsComplete(b)]_vars

\* C20: every battle record an AI attack creates has a defender that is a
\* country of the attacker's world and is not the attacking country itself.
C20_DefenderInSameWorld ==
    [][Len(battles') > Len(battles) =>
        LET r == battles'[Len(battles')]
        IN  /\ r.attacker_id \in DOMAIN ai
            /\ ai[r.attacker_id].bot_id = r.bot_id
            /\ IF r.defender_type = "player"
               THEN <<r.bot_id, r.defender_id>> \in DOMAIN users
               ELSE /\ r.defender_id \in DOMAIN ai
                    /\ ai[r.defender_id].bot_id = r.bot_id
                    /\ r.defender_id # r.attacker_id]_vars

\* An AI country of world 1 has just attacked while a second world, owned
\* by a user who is no player of world 1, has countries of its own
C20_Witness ==
    /\ lastOp.op = "attack"
    /\ lastOp.outcome = "ok"
    /\ lastOp.bot = 1
    /\ battles # <<>>
    /\ \E w \in bots : w.id = 2 /\ <<1, w.owner_id>> \notin DOMAIN users
    /\ \E i \in DOMAIN ai : ai[i].bot_id = 2

---------------------------------------------------------------------------
(* The records of the store under every operation that writes to it *)

\* Registrations, AI cycles, resets, and the loan requests of the owners
NextRecords ==
    \/ \E token \in Tokens, owner \in UserIds :
          ProcessOwnerId(token, owner) /\ UNCHANGED conv
    \/ \E b \in DOMAIN sched : WakeUp(b)
    \/ \E b \in DOMAIN sched : MakeDecision(b)
    \/ \E b \in DOMAIN sched : EndCycle(b)
    \/ \E w \in bots : ProcessLoanRequest(w.id, w.owner_id)
    \/ \E t \in awaiting : ReplySent(t)
    \/ \E b \in DOMAIN sched, u \in UserIds : StartNewGame(b, u)

SpecRecords == InitWorlds /\ [][NextRecords]_vars

\* s is an initial part of t
IsPrefix(s, t) == Len(s) <= Len(t) /\ SubSeq(t, 1, Len(s)) = s

\* The battle records the store holds: inside a cycle, what its connection
\* inserted is not in the store before the commit at the end of the cycle
CommittedBattles ==
    IF \E b \in DOMAIN sched : sched[b].pc = "running"
    THEN sched[CHOOSE b \in DOMAIN sched : sched[b].pc = "running"].saved.battles
    ELSE battles

\* C14: battle and loan records are append-only: no loan request, AI tick,
\* new-game reset or registration deletes a record of the store or changes
\* any of its fields.
C14_RecordsAppendOnly ==
    [][IsPrefix(loans, loans') /\ IsPrefix(CommittedBattles, CommittedBattles')]_vars

\* A new game was started in a world that has a loan and a battle record,
\* both still there
C14_Witness ==
    /\ lastOp.op = "start_new_game"
    /\ lastOp.outcome = "ok"
    /\ \E k \in 1 .. Len(loans) : loans[k].bot_id = lastOp.bot
    /\ \E k \in 1 .. Len(CommittedBattles) : CommittedBattles[k].bot_id = lastOp.bot

---------------------------------------------------------------------------
(* make_decision and the four actions on any content of the store *)

(* war_game.db is a file the process opens: run_ai_cycle reads whatever    *)
(* rows ai_countries and users hold.  The first row of ai_countries is     *)
(* drawn from the values below (personality is free text, money and        *)
(* technology_level are integers), the rows after it are default AI        *)
(* countries, and the world has its owner's row or no row of users at all. *)

StorePersonalities == {"aggressive", "pacifist"}
StoreMoney == {0, 1000, 25000}
StoreTech == {1, 7}
MaxStoreAi == 2

StoreAiRows ==
    [bot_id : {1}, name : {"amrika"}, personality : StorePersonalities,
     resources : {Resources(m, 800, 1200, 1500) : m \in StoreMoney},
     units : {NoUnits}, technology_level : StoreTech, morale : {100}]

InitStore ==
    /\ bots = {[id |-> 1, token |-> "1:a", owner_id |-> 1]}
    /\ \E players \in SUBSET {<<1, 1>>} : users = [k \in players |-> OwnerRow]
    /\ \E n \in 1 .. MaxStoreAi, first \in StoreAiRows :
          ai = [i \in 1 .. n |-> IF i = 1 THEN first ELSE AiRow(1, DefaultAi[i])]
    /\ nextAiId = Len(ai) + 1
    /\ loans = <<>>
    /\ battles = <<>>
    /\ alliances = <<>>
    /\ members = <<>>
    /\ now = 0
    /\ tz = 0
    /\ sched = [b \in BotIds |-> IdleSched]
    /\ awaiting = {}
    /\ lastOp = NoOp
    /\ battleIn = NoBattle
    /\ battleOut = NoResult
    /\ conv = NoConversation

NextStore ==
    \/ \E b \in DOMAIN sched : WakeUp(b)
    \/ \E b \in DOMAIN sched : MakeDecision(b)
    \/ \E b \in DOMAIN sched : EndCycle(b)

SpecStore == InitStore /\ [][NextStore]_vars

---------------------------------------------------------------------------
(* Claims about the single actions, checked under SpecStore *)

\* C17: a research action of an existing AI country X raises X's technology
\* level by exactly 1 whatever X's resources are, and changes no other field
\* of X and no other country.
C17_ResearchAddsOneLevel ==
    [][(lastOp'.op = "research" /\ lastOp'.id \in DOMAIN ai) =>
        /\ ai' = [ai EXCEPT ![lastOp'.id].technology_level = ai[lastOp'.id].technology_level + 1]
        /\ users' = users]_vars

\* A country without money has just researched; the first fetched row is
\* still as it was stored, so its level is the stored one plus 1
C17_Witness ==
    /\ lastOp.op = "research"
    /\ lastOp.id = 1
    /\ ai[1].resources.money = 0
    /\ ai[1].technology_level = 8

\* The AI country x of world b is the only country of b
AloneInWorld(b, x) ==
    /\ {k \in DOMAIN users : k[1] = b} = {}
    /\ {i \in DOMAIN ai : ai[i].bot_id = b} = {x}

\* C18: an attack action of an AI country in a world that contains no other
\* country (no player, no other AI) creates no battle record, changes no
\* state and raises no error.
C18_AttackAloneIsNoOp ==
    [][(lastOp'.op = "attack" /\ AloneInWorld(lastOp'.bot, lastOp'.id)) =>
        /\ dbvars' = dbvars
        /\ lastOp'.outcome = "no target"
        /\ sched'[lastOp'.bot].pc = "running"]_vars

\* The only country of its world has just attacked
C18_Witness ==
    /\ lastOp.op = "attack"
    /\ AloneInWorld(lastOp.bot, lastOp.id)
    /\ battles = <<>>

KnownTags == {"aggressive", "defensive", "unpredictable", "neutral", "strategic"}

\* C19: make_decision never fails because of the personality tag: for an AI
\* country whose tag is none of the five known ones the weights of the draw
\* are those of the 'neutral' profile (0.3, 0.5, 0.2, and 0.1, 0.1), so
\* each of the five actions can be drawn.
C19_UnknownTagIsNeutral ==
    \A i \in DOMAIN ai :
        ai[i].personality \notin KnownTags =>
            /\ PersonalityConfig(ai[i].personality) =
                  [attack |-> 3, build |-> 5, ally |-> 2, research |-> 1, nothing |-> 1]
            /\ Decisions(ai[i].personality) = FiveActions

\* A decision was just made for a country whose tag is unknown
C19_Witness ==
    /\ lastOp.op \in FiveActions
    /\ lastOp.id \in DOMAIN ai
    /\ ai[lastOp.id].personality = "pacifist"
    /\ lastOp.outcome = "ok"

\* The countries of world b other than the AI country x: the players and
\* the other AI countries
OtherPlayers(b) == {k[2] : k \in {j \in DOMAIN users : j[1] = b}}
OtherAis(b, x) == {i \in DOMAIN ai : ai[i].bot_id = b /\ i # x}

---------------------------------------------------------------------------
(* Claims about the new-game reset, checked under SpecLoan *)

\* The rows of ai_countries of world b in the table t, without their ids
AiRowsOf(t, b) == {t[i] : i \in {j \in DOMAIN t : t[j].bot_id = b}}

\* The five default AI countries as rows of world b
FiveDefaultRows(b) == {AiRow(b, DefaultAi[k]) : k \in 1 .. Len(DefaultAi)}

\* C22: after a new-game reset requested by user U in world W completes, U's
\* record has the default resources (10000, 500, 1000, 1000), the default
\* units, technology level 1 and morale 100, and W's previous AI countries
\* are deleted and replaced by exactly the five default AI countries.
C22_ResetRestoresDefaults ==
    [][(lastOp'.op = "start_new_game" /\ lastOp'.outcome = "ok") =>
        LET w == lastOp'.bot
            k == <<lastOp'.bot, lastOp'.id>>
        IN  /\ k \in DOMAIN users'
            /\ users'[k].resources = Resources(10000, 500, 1000, 1000)
            /\ users'[k].units = DefaultUnits
            /\ users'[k].technology_level = 1
            /\ users'[k].morale = 100
            /\ {i \in DOMAIN ai : ai[i].bot_id = w} \cap DOMAIN ai' = {}
            /\ Cardinality({i \in DOMAIN ai' : ai'[i].bot_id = w}) = 5
            /\ AiRowsOf(ai', w) = FiveDefaultRows(w)]_vars

---------------------------------------------------------------------------
(* Two registered worlds side by side *)

\* The store after process_owner_id registered the second world for user 2:
\* world 1 has its cycle started, world 2 is as the registration leaves it
InitIsolation ==
    /\ bots = {[id |-> 1, token |-> "1:a", owner_id |-> 1],
               [id |-> 2, token |-> "2:b", owner_id |-> 2]}
    /\ users = [k \in {<<1, 1>>, <<2, 2>>} |-> OwnerRow]
    /\ ai = CreateDefaultAiCountries(CreateDefaultAiCountries(EmptyTable, 1, 1),
                                     2, Len(DefaultAi) + 1)
    /\ nextAiId = 2 * Len(DefaultAi) + 1
    /\ loans = <<>>
    /\ battles = <<>>
    /\ alliances = <<>>
    /\ members = <<>>
    /\ now = 0
    /\ tz = 0
    /\ sched = [b \in {1, 2} |-> IF b = 1 THEN IdleSched ELSE UnstartedSched]
    /\ awaiting = {}
    /\ lastOp = NoOp
    /\ battleIn = NoBattle
    /\ battleOut = NoResult
    /\ conv = NoConversation

\* User 1, the owner of world 1, plays in both worlds: the loan requests and
\* the country selection are its own, a reset is an owner's; the ids leave
\* room for one reset.  World 1 runs its cycle.
NextIsolation ==
    \/ \E b \in DOMAIN sched : ProcessLoanRequest(b, 1)
    \/ \E t \in awaiting : ReplySent(t)
    \/ \E b \in DOMAIN sched : AssignCountry(b, 1, "iraq")
    \/ \E w \in bots : StartNewGameWithin(w.id, w.owner_id, MaxAiRows + Len(DefaultAi))
    \/ \E b \in DOMAIN sched : WakeUp(b)
    \/ \E b \in DOMAIN sched : MakeDecision(b)
    \/ \E b \in DOMAIN sched : EndCycle(b)

SpecIsolation == InitIsolation /\ [][NextIsolation]_vars

---------------------------------------------------------------------------
(* Claims about the isolation of the worlds, checked under SpecIsolation *)

\* The ids of the alliances of world w in the table al
AllianceIdsOf(al, w) == {al[k].id : k \in {j \in 1 .. Len(al) : al[j].bot_id = w}}

\* The country, battle, loan and alliance records of world w in the tables
\* given: users, ai_countries, battles, loans, alliances, alliance_members
WorldRecords(us, as, bs, ls, al, ms, w) ==
    [countries |-> [k \in {j \in DOMAIN us : j[1] = w} |-> us[k]],
     ai_countries |-> [i \in {j \in DOMAIN as : as[j].bot_id = w} |-> as[i]],
     battles |-> SelectSeq(bs, LAMBDA r : r.bot_id = w),
     loans |-> SelectSeq(ls, LAMBDA l : l.bot_id = w),
     alliances |-> SelectSeq(al, LAMBDA a : a.bot_id = w),
     members |-> SelectSeq(ms, LAMBDA m : m.alliance_id \in AllianceIdsOf(al, w))]

\* The operations of a world: the handlers and the actions of an AI tick
WorldOps ==
    {"loan", "assign_country", "start_new_game",
     "attack", "build", "ally", "research", "nothing"}

\* C23: an operation performed in world W (loan request, country selection,
\* new-game reset, AI tick with any action) leaves every country, battle,
\* loan and alliance record of every other world unchanged, and a loan
\* request in W is rejected only for a loan of the same user in W itself.
C23_WorldsIsolated ==
    [][lastOp'.op \in WorldOps =>
        /\ \A w \in {x.id : x \in bots} \ {lastOp'.bot} :
              WorldRecords(users', ai', battles', loans', alliances', members', w)
                  = WorldRecords(users, ai, battles, loans, alliances, members, w)
        /\ (lastOp'.op = "loan" /\ lastOp'.outcome = "rejected") =>
              \E i \in 1 .. Len(loans) :
                  loans[i].user_id = lastOp'.id /\ loans[i].bot_id = lastOp'.bot]_vars

\* A loan is granted in world 2 to a user whose cooldown is active in world
\* 1, after a reset and an AI cycle took place
C23_Witness ==
    /\ lastOp.op = "loan"
    /\ lastOp.outcome = "granted"
    /\ lastOp.bot = 2
    /\ CooldownActive(lastOp.id, 1)
    /\ nextAiId > 2 * Len(DefaultAi) + 1
    /\ sched[1].cycles > 0

---------------------------------------------------------------------------
(* Claims about the amount of a loan, checked under SpecLoan *)

\* The balance show_loan_menu prints above the terms: the money of the users
\* row, 0 when the user has no row in the world
CurrentBalance(u, b) ==
    IF <<b, u>> \in DOMAIN users THEN users[<<b, u>>].resources.money ELSE 0

\* C24: the amount of every issued loan is at most 50% of the borrower's
\* money at the moment of issuance, as the terms of the loan menu state.
C24_LoanWithinHalfBalance ==
    [][(lastOp'.op = "loan" /\ lastOp'.outcome = "granted") =>
        /\ Len(loans') = Len(loans) + 1
        /\ 2 * loans'[Len(loans')].amount <= CurrentBalance(lastOp'.id, lastOp'.bot)]_vars

---------------------------------------------------------------------------
(* Claims about the defense side of a battle, checked under SpecBattle *)

\* The morale every users and ai_countries row has: the default of the
\* column, which no statement changes (start_new_game writes it again)
DefaultMorale == 100

\* The morale multiplier 1 + 0.01 * (morale - 50), in hundredths
MoraleMultiplier(morale) == 100 + (morale - 50)

\* C26: the final defense used in the win comparison equals the defender's
\* defense power multiplied by the morale multiplier
\* 1 + 0.01 * (defender morale - 50); the luck factor is applied to the
\* attack side only.
C26_DefenseScaledByMorale ==
    Computed =>
        /\ 100 * battleOut.final_defense
              = DefensePower(battleIn.defender_units) * Scale * MoraleMultiplier(DefaultMorale)
        /\ \A luck \in LuckDraws :
              CalculateBattleResult(battleIn, luck).final_defense = battleOut.final_defense

---------------------------------------------------------------------------
(* The end of the scheduler loop *)

\* The loop is "while True" and tests no flag: the one way to stop it is the
\* cancellation of its task by the event loop (asyncio.run cancels the tasks
\* left when main returns).  A task in its sleep gets the CancelledError at
\* once; a cycle body never suspends, so a request made during a cycle is
\* raised at the next sleep.
RequestShutdown(b) ==
    /\ sched[b].pc \in {"sleeping", "running"}
    /\ ~sched[b].stop
    /\ sched' = [sched EXCEPT ![b] = [@ EXCEPT !.stop = TRUE,
                                               !.pc = IF @ = "sleeping" THEN "cancelled" ELSE @]]
    /\ lastOp' = Op("shutdown", b, 0, "", "")
    /\ UNCHANGED <<now, tz, conv, dbvars, awaiting, battleIn, battleOut>>

NextShutdown ==
    \/ \E b \in DOMAIN sched : WakeUp(b)
    \/ \E b \in DOMAIN sched : MakeDecision(b)
    \/ \E b \in DOMAIN sched : EndCycle(b)
    \/ \E b \in DOMAIN sched : RequestShutdown(b)

SpecShutdown == InitWorlds /\ [][NextShutdown]_vars

\* C27: after shutdown is requested no new tick starts, and a tick that is
\* in flight finishes the decisions of all AI countries of that cycle before
\* the loop ends.
C27_CooperativeShutdown ==
    [][\A b \in DOMAIN sched :
          sched[b].stop =>
              /\ ~(sched[b].pc # "running" /\ sched'[b].pc = "running")
              /\ (sched[b].pc = "running" /\ sched'[b].pc # "running") =>
                    (sched[b].queue = <<>> /\ sched'[b].pc = "cancelled")]_vars

---------------------------------------------------------------------------
(* Claims about the weights of make_decision, checked under SpecWorlds *)

\* The sum of the five weights random.choices is given
WeightTotal(config) ==
    config.attack + config.build + config.ally + config.research + config.nothing

\* C28: the normalized probability of 'attack' (attack weight divided by the
\* sum of the five action weights) of an 'aggressive' AI country is strictly
\* greater than that of a 'defensive' one.
C28_AggressiveAttacksMore ==
    \A a, d \in DOMAIN ai :
        (ai[a].personality = "aggressive" /\ ai[d].personality = "defensive") =>
            PersonalityConfig(ai[a].personality).attack
                    * WeightTotal(PersonalityConfig(ai[d].personality))
                > PersonalityConfig(ai[d].personality).attack
                    * WeightTotal(PersonalityConfig(ai[a].personality))

\* make_decision drew 'attack' for an aggressive country of a world that
\* also has a defensive one
C28_Witness ==
    /\ lastOp.op = "attack"
    /\ lastOp.id \in DOMAIN ai
    /\ ai[lastOp.id].personality = "aggressive"
    /\ \E d \in DOMAIN ai :
          ai[d].bot_id = lastOp.bot /\ ai[d].personality = "defensive"


\* C29: when the action chosen for an AI country is idle ('nothing'), the
\* tick leaves every record of the store unchanged.
C29_IdleChangesNothing ==
    [][lastOp'.op = "nothing" => dbvars' = dbvars]_vars

\* A country idles in a cycle in which another country has already acted
C29_Witness ==
    /\ lastOp.op = "nothing"
    /\ sched[lastOp.bot].pc = "running"
    /\ sched[lastOp.bot].ops > 0

---------------------------------------------------------------------------
(* Claims about the technology level, checked under SpecAI *)

\* The ai_countries rows the store holds: inside a cycle, what its
\* connection wrote is not in the store before the commit at its end
CommittedAi ==
    IF \E b \in DOMAIN sched : sched[b].pc = "running"
    THEN sched[CHOOSE b \in DOMAIN sched : sched[b].pc = "running"].saved.ai
    ELSE ai

\* Every country row of the tables us and as has a positive level
TechPositive(us, as) ==
    /\ \A k \in DOMAIN us : us[k].technology_level \in Nat \ {0}
    /\ \A i \in DOMAIN as : as[i].technology_level \in Nat \ {0}

\* No row that is in t and in u has a lower level in u
TechNotLower(t, u) ==
    \A k \in DOMAIN t \cap DOMAIN u : u[k].technology_level >= t[k].technology_level

\* C30: the technology level of every country is a positive integer and,
\* for as long as that country record exists, never decreases under any
\* sequence of AI ticks and loan requests.
C30_TechPositiveNeverLower ==
    [][/\ TechPositive(users, ai)
       /\ TechPositive(users', ai')
       /\ TechNotLower(users, users')
       /\ TechNotLower(CommittedAi, CommittedAi')]_vars

\* A cycle with a research committed while the owner has taken a loan
C30_Witness ==
    /\ lastOp.op = "end_cycle"
    /\ \E i \in DOMAIN ai : ai[i].technology_level > 1
    /\ LoansOf(1, 1) # {}

---------------------------------------------------------------------------
(* The sleep between two cycles *)

\* The draws with 0 among them
SleepDrawsFromZero == {0, 1, 2, 3}

\* random.randint(600, 1800) seconds, in units of ten minutes
SleepDraws == {1, 2, 3}

\* Ten minutes of a sleep pass: the timer of asyncio.sleep has not fired yet
SleepElapses(b) ==
    /\ sched[b].pc = "sleeping"
    /\ sched[b].slept < sched[b].delay
    /\ sched' = [sched EXCEPT ![b] = [@ EXCEPT !.slept = @ + 1]]
    /\ lastOp' = Op("elapse", b, 0, "", "")
    /\ UNCHANGED <<now, tz, conv, dbvars, awaiting, battleIn, battleOut>>

\* asyncio.sleep returns when the delay has passed
TimerWakeUp(b) ==
    /\ sched[b].slept >= sched[b].delay
    /\ WakeUpWithin(b, MaxCycles + 1)

\* A registered world whose run_ai_cycle was started and has drawn the
\* length of its first sleep
InitSleep ==
    /\ InitWorld
    /\ now = 0
    /\ tz = 0
    /\ \E d \in SleepDraws : sched = [b \in BotIds |-> [IdleSched EXCEPT !.delay = d]]
    /\ awaiting = {}
    /\ lastOp = NoOp
    /\ battleIn = NoBattle
    /\ battleOut = NoResult
    /\ conv = NoConversation

NextSleep ==
    \/ \E b \in DOMAIN sched : SleepElapses(b)
    \/ \E b \in DOMAIN sched : TimerWakeUp(b)
    \/ \E b \in DOMAIN sched : MakeDecision(b)
    \/ \E b \in DOMAIN sched, d \in SleepDraws : EndCycleThenSleep(b, d)

SpecSleep == InitSleep /\ [][NextSleep]_vars

\* C31: the time between the end of one scheduler cycle of a world and the
\* start of the next is always between 10 and 30 minutes inclusive.
C31_SleepBetweenCycles ==
    [][\A b \in DOMAIN sched :
          (sched[b].pc = "sleeping" /\ sched'[b].pc = "running") =>
              (1 <= sched[b].slept /\ sched[b].slept <= 3)]_vars

\* The second cycle of a world starts after a sleep of thirty minutes
C31_Witness ==
    /\ lastOp.op = "wake_up"
    /\ sched[lastOp.bot].cycles = 2
    /\ sched[lastOp.bot].slept = 3

---------------------------------------------------------------------------
(* ChildBot.handle_child_callback: the dispatch of a callback query *)

\* A callback data string with the list data.split("_") gives for it
Data(text, parts) == [text |-> text, parts |-> parts]

\* The callback data of the keyboards of the child bot and the data the
\* dispatcher tests for; a client can send any of them at any time
CallbackData ==
    {Data("start_game", <<"start", "game">>),
     Data("country_iraq", <<"country", "iraq">>),
     Data("country_zz", <<"country", "zz">>),
     Data("menu_main", <<"menu", "main">>),
     Data("menu_profile", <<"menu", "profile">>),
     Data("menu_loan", <<"menu", "loan">>),
     Data("get_loan", <<"get", "loan">>),
     Data("loan_5000", <<"loan", "5000">>),
     Data("loan_10000", <<"loan", "10000">>),
     Data("loan_rules", <<"loan", "rules">>),
     Data("repay_loan", <<"repay", "loan">>)}

\* data.startswith(prefix + "_")
StartsWith(d, prefix) == Len(d.parts) >= 2 /\ d.parts[1] = prefix

\* The menus show_menu has a branch for
MenuTypes == {"profile", "ground", "economy", "attack", "guide"}

\* show_menu: reads the users row and shows the menu of the type, if it has
\* a branch for the type; nothing is written
ShowMenu(b, u, d) ==
    /\ Quiescent
    /\ lastOp' = Op("show_menu", b, u, d.text,
                    IF <<b, u>> \notin DOMAIN users THEN "user_not_found"
                    ELSE IF d.parts[2] \in MenuTypes THEN d.parts[2]
                    ELSE "")
    /\ UNCHANGED <<now, tz, conv, dbvars, sched, awaiting, battleIn, battleOut>>

\* show_loan_menu: shows the loan of the user or the terms with the buttons
\* loan_5000, loan_10000, loan_rules and menu_main; nothing is written
ShowLoanMenu(b, u, d) ==
    /\ Quiescent
    /\ lastOp' = Op("show_loan_menu", b, u, d.text,
                    IF LoansOf(u, b) # {} THEN "loan_status" ELSE "loan_terms")
    /\ UNCHANGED <<now, tz, conv, dbvars, sched, awaiting, battleIn, battleOut>>

\* No branch of the chain matches the data: the handler returns
Unhandled(b, u, d) ==
    /\ Quiescent
    /\ lastOp' = Op("unhandled", b, u, d.text, "")
    /\ UNCHANGED <<now, tz, conv, dbvars, sched, awaiting, battleIn, battleOut>>

\* The if/elif chain, in its order
HandleChildCallback(b, u, d) ==
    IF d.text = "start_game" THEN StartNewGame(b, u)
    ELSE IF StartsWith(d, "country") THEN AssignCountry(b, u, d.parts[2])
    ELSE IF StartsWith(d, "menu") THEN ShowMenu(b, u, d)
    ELSE IF d.text = "menu_loan" THEN ShowLoanMenu(b, u, d)
    ELSE IF d.text = "get_loan" THEN ProcessLoanRequest(b, u)
    ELSE Unhandled(b, u, d)

NextDispatch ==
    \/ \E b \in BotIds, u \in UserIds, d \in CallbackData : HandleChildCallback(b, u, d)
    \/ \E t \in awaiting : ReplySent(t)

SpecDispatch == InitWorlds /\ [][NextDispatch]_vars

\* The buttons of the loan menu that are labelled as giving a loan
LoanButtons == {"loan_5000", "loan_10000"}

\* C32: a callback with data 'menu_loan' is routed to the loan menu
\* (show_loan_menu), and a press of a button of that menu that offers a loan
\* invokes process_loan_request, which issues the loan to an eligible user.
C32_LoanReachableByCallbacks ==
    [][/\ lastOp'.choice = "menu_loan" => lastOp'.op = "show_loan_menu"
       /\ (lastOp'.choice \in LoanButtons /\ ~CooldownActive(lastOp'.id, lastOp'.bot)) =>
             (lastOp'.op = "loan" /\ lastOp'.outcome = "granted")]_vars


\* The owner of world b
OwnerOf(b) == (CHOOSE w \in bots : w.id = b).owner_id

\* C33: only the owner of a world can trigger the new-game reset: a
\* 'start_game' callback sent by a user who is not the world's owner never
\* deletes or recreates the world's AI countries.
C33_OnlyOwnerResets ==
    [][(lastOp'.op = "start_new_game" /\ lastOp'.id # OwnerOf(lastOp'.bot)) =>
          ai' = ai]_vars


---------------------------------------------------------------------------
(* MotherBot's /addbot conversation (setup_handlers, start_add_bot,
   process_bot_token, process_owner_id, cancel_add_bot).  A text message is
   the sequence of its characters. *)

\* The text messages the users send: two tokens (one of them with blanks
\* around it), a text with no colon, two integers and a word
Messages ==
    { <<"1", ":", "a">>, <<" ", "2", ":", "b", " ">>, <<"a", "b">>,
      <<"2">>, <<" ", "1", " ">>, <<"t", "w", "o">> }

\* str.strip(): the text without its leading and its trailing blanks
RECURSIVE LStrip(_)
LStrip(s) == IF s # <<>> /\ Head(s) = " " THEN LStrip(Tail(s)) ELSE s

RECURSIVE RStrip(_)
RStrip(s) == IF s # <<>> /\ s[Len(s)] = " " THEN RStrip(SubSeq(s, 1, Len(s) - 1)) ELSE s

Strip(s) == RStrip(LStrip(s))

\* The string of a sequence of characters
RECURSIVE Join(_)
Join(s) == IF s = <<>> THEN "" ELSE Head(s) \o Join(Tail(s))

\* "c in s" of Python
Contains(s, c) == \E i \in 1..Len(s) : s[i] = c

Digits == <<"0", "1", "2", "3", "4", "5", "6", "7", "8", "9">>

DigitValue(c) == (CHOOSE i \in 1..Len(Digits) : Digits[i] = c) - 1

\* int(s) succeeds on a stripped text: an optional sign, then digits only
IsInt(s) ==
    LET body == IF s # <<>> /\ Head(s) \in {"+", "-"} THEN Tail(s) ELSE s
    IN  /\ body # <<>>
        /\ \A i \in 1..Len(body) : Contains(Digits, body[i])

RECURSIVE DigitsValue(_)
DigitsValue(s) ==
    IF s = <<>> THEN 0 ELSE 10 * DigitsValue(SubSeq(s, 1, Len(s) - 1)) + DigitValue(s[Len(s)])

\* int(s) where it succeeds
ParseInt(s) ==
    IF Head(s) = "-" THEN 0 - DigitsValue(Tail(s))
    ELSE IF Head(s) = "+" THEN DigitsValue(Tail(s))
    ELSE DigitsValue(s)

\* filters.COMMAND: the text begins with a slash
IsCommand(s) == s # <<>> /\ Head(s) = "/"

\* The conversation is over and user_data holds no token
Ended == [state |-> "END", token |-> "none"]

\* /addbot, the entry point: taken only by a user who is in no conversation
StartAddBot(u) ==
    /\ Quiescent
    /\ conv[u].state = "END"
    /\ conv' = [conv EXCEPT ![u].state = "WAITING_TOKEN"]
    /\ lastOp' = Op("start_add_bot", 0, u, "", "WAITING_TOKEN")
    /\ UNCHANGED <<now, tz, dbvars, sched, awaiting, battleIn, battleOut>>

\* process_bot_token: startswith('') is true of every string, so the test
\* rejects the texts that hold no colon; an accepted token goes into
\* user_data['bot_token']
ProcessBotToken(u, text) ==
    LET token == Strip(text)
    IN  /\ Quiescent
        /\ conv[u].state = "WAITING_TOKEN"
        /\ ~IsCommand(text)
        /\ IF ~Contains(token, ":")
           THEN /\ conv' = conv
                /\ lastOp' = Op("process_bot_token", 0, u, Join(text), "WAITING_TOKEN")
           ELSE /\ conv' = [conv EXCEPT ![u] = [state |-> "WAITING_OWNER_ID",
                                                token |-> Join(token)]]
                /\ lastOp' = Op("process_bot_token", 0, u, Join(text), "WAITING_OWNER_ID")
        /\ UNCHANGED <<now, tz, dbvars, sched, awaiting, battleIn, battleOut>>

\* process_owner_id on a text message.  int() raising ValueError keeps the
\* state.  Otherwise the store is written as ProcessOwnerId tells: success
\* deletes user_data['bot_token'] and returns END, the IntegrityError
\* returns WAITING_TOKEN with the token still in user_data, and an exception
\* that leaves the handler leaves the conversation where it was.
ProcessOwnerIdMessage(u, text) ==
    LET stripped == Strip(text)
    IN  /\ conv[u].state = "WAITING_OWNER_ID"
        /\ ~IsCommand(text)
        /\ IF ~IsInt(stripped)
           THEN /\ Quiescent
                /\ conv' = conv
                /\ lastOp' = Op("process_owner_id", 0, u, Join(text), "ValueError")
                /\ UNCHANGED <<now, tz, dbvars, sched, awaiting, battleIn, battleOut>>
           ELSE /\ ProcessOwnerId(conv[u].token, ParseInt(stripped))
                /\ conv' = [conv EXCEPT ![u] =
                               IF lastOp'.outcome = "ok" THEN Ended
                               ELSE IF lastOp'.outcome = "IntegrityError"
                                    THEN [@ EXCEPT !.state = "WAITING_TOKEN"]
                                    ELSE @]

\* cancel_add_bot without its "del context.user_data['bot_token']"
CancelAddBotKeepingToken(u) ==
    /\ Quiescent
    /\ conv[u].state \in {"WAITING_TOKEN", "WAITING_OWNER_ID"}
    /\ conv' = [conv EXCEPT ![u].state = "END"]
    /\ lastOp' = Op("cancel_add_bot", 0, u, "", conv[u].state)
    /\ UNCHANGED <<now, tz, dbvars, sched, awaiting, battleIn, battleOut>>

\* /cancel, the fallback of both states
CancelAddBot(u) ==
    /\ Quiescent
    /\ conv[u].state \in {"WAITING_TOKEN", "WAITING_OWNER_ID"}
    /\ conv' = [conv EXCEPT ![u] = Ended]
    /\ lastOp' = Op("cancel_add_bot", 0, u, "", conv[u].state)
    /\ UNCHANGED <<now, tz, dbvars, sched, awaiting, battleIn, battleOut>>

NextConversation ==
    \/ \E u \in UserIds : StartAddBot(u)
    \/ \E u \in UserIds, text \in Messages : ProcessBotToken(u, text)
    \/ \E u \in UserIds, text \in Messages : ProcessOwnerIdMessage(u, text)
    \/ \E u \in UserIds : CancelAddBot(u)

SpecConversation == InitWorlds /\ [][NextConversation]_vars


---------------------------------------------------------------------------
(* Claims about the registration of a world, checked under SpecConversation *)

\* The conversation of one user, who was in WAITING_OWNER_ID, is in the
\* state st after the step, and no other user's conversation changed
OnlySenderMoves(st) ==
    \E u \in UserIds :
        /\ conv[u].state = "WAITING_OWNER_ID"
        /\ conv'[u].state = st
        /\ \A v \in UserIds \ {u} : conv'[v] = conv[v]

\* C34: registration is all-or-nothing.  A successful process_owner_id adds
\* exactly one bot, one owner country (money 20000, default units) and the
\* five default AI countries of the new world, and ends the conversation
\* (with the pending token deleted); a process_owner_id that does not
\* succeed leaves every table as it was, and the one that met an already
\* registered token returns the conversation to WAITING_TOKEN.
C34_RegistrationAllOrNothing ==
    [][(lastOp'.op = "process_owner_id") =>
        LET w == lastOp'.bot
            k == <<lastOp'.bot, lastOp'.id>>
        IN  /\ (lastOp'.outcome = "ok") =>
                /\ \E row \in bots' \ bots :
                      /\ bots' = bots \cup {row}
                      /\ row.id = w
                      /\ row.owner_id = lastOp'.id
                      /\ row.token \notin {r.token : r \in bots}
                /\ \A r \in bots : r.id # w
                /\ DOMAIN users' = DOMAIN users \cup {k}
                /\ k \notin DOMAIN users
                /\ \A j \in DOMAIN users : users'[j] = users[j]
                /\ users'[k].resources.money = 20000
                /\ users'[k].units = DefaultUnits
                /\ users'[k].is_owner
                /\ Cardinality(DOMAIN ai' \ DOMAIN ai) = 5
                /\ DOMAIN ai \subseteq DOMAIN ai'
                /\ \A i \in DOMAIN ai : ai'[i] = ai[i]
                /\ {ai'[i] : i \in DOMAIN ai' \ DOMAIN ai} = FiveDefaultRows(w)
                /\ UNCHANGED <<loans, battles, alliances, members>>
                /\ OnlySenderMoves("END")
                /\ \A u \in UserIds : conv'[u].state = "END" => conv'[u].token = "none"
            /\ (lastOp'.outcome # "ok") => UNCHANGED dbvars
            /\ (lastOp'.outcome = "IntegrityError") => OnlySenderMoves("WAITING_TOKEN")]_vars

\* A second world was registered, and a later process_owner_id with a
\* registered token sent its user back to WAITING_TOKEN
C34_Witness ==
    /\ lastOp.op = "process_owner_id"
    /\ lastOp.outcome = "IntegrityError"
    /\ Cardinality(bots) = 2
    /\ Cardinality(DOMAIN ai) = 2 * Len(DefaultAi)
    /\ \E u \in UserIds : conv[u].state = "WAITING_TOKEN" /\ conv[u].token # "none"


---------------------------------------------------------------------------
(* Claims about the /addbot conversation, checked under SpecConversation *)

\* The text of the message the last handler received, where it recorded one
TextOf(op) == {text \in Messages : Join(text) = op.choice}

\* The steps a conversation takes: from state s to state t by handler op
\* with outcome r
ConversationStep(s, t, op, r) ==
    \/ s = t
    \/ s = "END" /\ t = "WAITING_TOKEN" /\ op = "start_add_bot"
    \/ s = "WAITING_TOKEN" /\ t = "WAITING_OWNER_ID" /\ op = "process_bot_token"
    \/ s = "WAITING_OWNER_ID" /\ t = "END" /\ op = "process_owner_id" /\ r = "ok"
    \/ s = "WAITING_OWNER_ID" /\ t = "WAITING_TOKEN" /\ op = "process_owner_id"
                              /\ r = "IntegrityError"
    \/ s \in {"WAITING_TOKEN", "WAITING_OWNER_ID"} /\ t = "END" /\ op = "cancel_add_bot"

\* C38: the add-bot conversation is the state machine WAITING_TOKEN ->
\* WAITING_OWNER_ID -> END.  A token without ':' keeps WAITING_TOKEN and
\* stores nothing; a non-integer owner id keeps WAITING_OWNER_ID and
\* registers nothing; /cancel from either state discards the pending token,
\* registers nothing and ends the conversation; a world is registered only
\* with an owner id that int() parsed.
C38_ConversationStateMachine ==
    [][LET u == lastOp'.id
       IN  /\ \A v \in UserIds :
                 ConversationStep(conv[v].state, conv'[v].state, lastOp'.op, lastOp'.outcome)
           /\ (lastOp'.op = "start_add_bot") =>
                 /\ conv[u].state = "END"
                 /\ conv'[u].state = "WAITING_TOKEN"
                 /\ UNCHANGED dbvars
           /\ (lastOp'.op = "process_bot_token") =>
                 /\ conv[u].state = "WAITING_TOKEN"
                 /\ UNCHANGED dbvars
                 /\ TextOf(lastOp') # {}
                 /\ \A text \in TextOf(lastOp') :
                       IF Contains(Strip(text), ":")
                       THEN /\ conv'[u].state = "WAITING_OWNER_ID"
                            /\ conv'[u].token = Join(Strip(text))
                       ELSE conv' = conv
           /\ (lastOp'.op = "process_owner_id" /\ lastOp'.outcome = "ValueError") =>
                 /\ conv[u].state = "WAITING_OWNER_ID"
                 /\ conv' = conv
                 /\ UNCHANGED dbvars
                 /\ \A text \in TextOf(lastOp') : ~IsInt(Strip(text))
           /\ (lastOp'.op = "process_owner_id" /\ lastOp'.outcome # "ValueError") =>
                 lastOp'.id \in {ParseInt(Strip(text)) :
                                    text \in {m \in Messages : IsInt(Strip(m))}}
           /\ (lastOp'.op = "cancel_add_bot") =>
                 /\ lastOp'.outcome = conv[u].state
                 /\ conv[u].state \in {"WAITING_TOKEN", "WAITING_OWNER_ID"}
                 /\ conv'[u] = Ended
                 /\ UNCHANGED dbvars
           /\ \A v \in UserIds : conv'[v].state = "END" => conv'[v].token = "none"]_vars

\* A user whose token was accepted sent /cancel while asked for the owner id
C38_Witness ==
    /\ lastOp.op = "cancel_add_bot"
    /\ lastOp.outcome = "WAITING_OWNER_ID"
    /\ conv[lastOp.id] = Ended
    /\ Cardinality(bots) = 1


---------------------------------------------------------------------------
(* Claims about the users table, checked under SpecDispatch *)

\* The rows of users that user u has in world b
CountryRecords(us, b, u) == {k \in DOMAIN us : k[1] = b /\ k[2] = u}

\* C35: in every reachable state there is at most one country record per
\* (user, world), and a country selection by a user who already has a
\* country in that world leaves the existing record (name, resources,
\* units) as it was; a selection by a user without one adds one record.
C35_OneCountryPerUserAndWorld ==
    [][/\ \A b \in BotIds, u \in UserIds : Cardinality(CountryRecords(users', b, u)) <= 1
       /\ (lastOp'.op = "assign_country") =>
             LET k == <<lastOp'.bot, lastOp'.id>>
             IN  IF k \in DOMAIN users
                 THEN /\ users' = users
                      /\ lastOp'.outcome = "IntegrityError"
                 ELSE /\ DOMAIN users' = DOMAIN users \cup {k}
                      /\ \A j \in DOMAIN users : users'[j] = users[j]
                      /\ lastOp'.outcome = "ok"]_vars

\* User 2 chose a country in world 1 and then chose again
C35_Witness ==
    /\ lastOp.op = "assign_country"
    /\ lastOp.outcome = "IntegrityError"
    /\ lastOp.id = 2
    /\ <<1, 2>> \in DOMAIN users
    /\ users[<<1, 2>>].country = "iraq"
    /\ users[<<1, 2>>].resources = PlayerResources


---------------------------------------------------------------------------
(* Claims about the alliances, checked under SpecSleep *)

\* The rows of alliances of world b
AllianceRowsOf(al, b) == {k \in 1 .. Len(al) : al[k].bot_id = b}

\* The members of the alliance with id a
MembersOf(ms, a) == {k \in 1 .. Len(ms) : ms[k].alliance_id = a}

\* The memberships the store holds: inside a cycle, what its connection
\* inserted is not in the store before the commit at the end of the cycle
CommittedMembers ==
    IF \E b \in DOMAIN sched : sched[b].pc = "running"
    THEN sched[CHOOSE b \in DOMAIN sched : sched[b].pc = "running"].saved.members
    ELSE members

\* C36: after any sequence of AI ticks each world has at most one alliance
\* and every alliance has at least one member (in the store and in what the
\* cycle's connection sees), and no step removes or changes a membership of
\* the store.
C36_OneAllianceWithMembers ==
    [][/\ \A b \in DOMAIN sched' : Cardinality(AllianceRowsOf(alliances', b)) <= 1
       /\ \A k \in 1 .. Len(alliances') : MembersOf(members', alliances'[k].id) # {}
       /\ IsPrefix(CommittedMembers, CommittedMembers')]_vars

\* An alliance founded in the first cycle is in the store with its member
\* when a country of the second cycle decides to ally
C36_Witness ==
    /\ lastOp.op = "ally"
    /\ lastOp.outcome = "UnboundLocalError"
    /\ sched[lastOp.bot].cycles = 2
    /\ Len(alliances) = 1
    /\ Len(members) = 1
    /\ members[1].alliance_id = alliances[1].id


---------------------------------------------------------------------------
(* Claims about the references of the records, checked under SpecAI *)

\* The AI country with id i exists in world w
AiCountryExists(i, w) == i \in DOMAIN ai /\ ai[i].bot_id = w

\* The world of the alliance with id a, as a set (empty when there is none)
WorldsOfAlliance(a) == {alliances[k].bot_id : k \in {j \in 1 .. Len(alliances) : alliances[j].id = a}}

\* C37: in every reachable state the attacker and the defender of every
\* battle record and the AI member of every alliance membership refer to a
\* country that currently exists in the record's world, also after a
\* new-game reset.
C37_RecordsReferToCountries ==
    /\ \A k \in 1 .. Len(battles) :
          /\ AiCountryExists(battles[k].attacker_id, battles[k].bot_id)
          /\ IF battles[k].defender_type = "ai"
             THEN AiCountryExists(battles[k].defender_id, battles[k].bot_id)
             ELSE <<battles[k].bot_id, battles[k].defender_id>> \in DOMAIN users
    /\ \A k \in 1 .. Len(members) :
          /\ WorldsOfAlliance(members[k].alliance_id) # {}
          /\ \A w \in WorldsOfAlliance(members[k].alliance_id) :
                AiCountryExists(members[k].ai_id, w)

===========================================================================
